---- MODULE Spec2Model ----
(***************************************************************************)
(* Model of the OptiSigns content engine: the delta detector               *)
(* (OptiSignsScraper.detect_changes, in main.py and in src/scraper.py),    *)
(* the program main() of main.py and the sync driver                       *)
(* (OpenAIUploader.setup_assistant of src/uploader.py).                    *)
(*                                                                         *)
(* The repository holds the scraper twice.  variant = "main" is the class  *)
(* of main.py (the one main() runs), variant = "pkg" the class of          *)
(* src/scraper.py.  Both read and write the same file,                     *)
(* article_metadata.json.                                                  *)
(***************************************************************************)
EXTENDS Integers, Sequences, FiniteSets, TLC

(***************************************************************************)
(* Bounds of the model.                                                    *)
(***************************************************************************)
\* longest article list the source feed returns
MaxDocs == 2
\* longest article list the help center holds in a program run
MaxFeed == 1
\* number of program runs (and of sync invocations) a behaviour holds
MaxRuns == 2
\* longest list of file entries a sync invocation is given
MaxFiles == 2
\* polls of a batch that answer fast and find it still pending
MaxPolls == 1

\* article ids of the feed
Ids == {1, 2}
\* Article bodies (HTML), as sequences of tokens: "a" is a character of
\* text, "n" a newline, "<" a piece of markup that renders to nothing
\* (an opening or closing inline tag).
RawBodies == { <<"a">>, <<"<", "a", "n">>, <<"a", "n", "n", "n", "a">> }
\* Article titles, as sequences of characters.
Titles == { <<"A", " ", "-", "b", "!">> }
\* updated_at stamps of the feed
Stamps == { "u1" }

Variants == {"main", "pkg"}

\* Python's None, shaped like a hash value so that the two compare.
None == <<"None", <<>>>>
\* limit=None, and limit=N as <<N>>
NoLimit == <<>>
Limits == {NoLimit, <<0>>, <<1>>}

Articles == [id : Ids, title : Titles, body : RawBodies, updated_at : Stamps]

RECURSIVE SeqsUpTo(_, _)
SeqsUpTo(S, n) ==
  IF n = 0 THEN {<<>>}
  ELSE LET shorter == SeqsUpTo(S, n - 1)
       IN shorter \cup {Append(s, x) : s \in {t \in shorter : Len(t) = n - 1}, x \in S}

ArticleLists == SeqsUpTo(Articles, MaxDocs)
\* the feeds a program run starts on: every list of up to MaxFeed articles,
\* and one feed of two articles
Article(k, body) ==
  CHOOSE a \in Articles : a.id = k /\ a.body = body
Feeds == SeqsUpTo(Articles, MaxFeed) \cup {<<Article(1, <<"a">>), Article(2, <<"a">>)>>}

Min(a, b) == IF a < b THEN a ELSE b

(***************************************************************************)
(* Text helpers: Python str methods and the two regular expressions.       *)
(***************************************************************************)
IsSpace(c) == c \in {" ", "n"}

RECURSIVE lstrip(_)
lstrip(s) == IF s # <<>> /\ IsSpace(Head(s)) THEN lstrip(Tail(s)) ELSE s

RECURSIVE rstrip(_)
rstrip(s) ==
  IF s # <<>> /\ IsSpace(s[Len(s)]) THEN rstrip(SubSeq(s, 1, Len(s) - 1)) ELSE s

strip(s) == rstrip(lstrip(s))

\* a run of k newlines
RECURSIVE Newlines(_)
Newlines(k) == IF k = 0 THEN <<>> ELSE <<"n">> \o Newlines(k - 1)

\* re.sub(r'\n{3,}', '\n\n', s); run is the length of the newline run read
\* so far.
RECURSIVE collapse_newlines(_, _)
collapse_newlines(s, run) ==
  LET out == Newlines(IF run >= 3 THEN 2 ELSE run)
  IN IF s = <<>> THEN out
     ELSE IF Head(s) = "n" THEN collapse_newlines(Tail(s), run + 1)
     ELSE out \o <<Head(s)>> \o collapse_newlines(Tail(s), 0)

\* markdownify: markup tokens render to nothing, text is kept.
md(html) == SelectSeq(html, LAMBDA t : t # "<")

\* main.py clean_html_to_markdown
clean_html_to_markdown(html_content) ==
  IF html_content = <<>> THEN <<>>
  ELSE strip(collapse_newlines(md(html_content), 0))

\* hashlib.sha256(...).hexdigest(), taken injective
calculate_content_hash(content) == <<"sha256", content>>

lower(c) == IF c = "A" THEN "a" ELSE c
IsWord(c) == c \in {"a", "b", "A"}

\* re.sub(r'[-\s]+', '-', s)
RECURSIVE collapse_hyphens(_, _)
collapse_hyphens(s, inrun) ==
  IF s = <<>> THEN <<>>
  ELSE IF Head(s) = "-" \/ IsSpace(Head(s))
       THEN (IF inrun THEN <<>> ELSE <<"-">>) \o collapse_hyphens(Tail(s), TRUE)
       ELSE <<Head(s)>> \o collapse_hyphens(Tail(s), FALSE)

RECURSIVE lstrip_hyphen(_)
lstrip_hyphen(s) == IF s # <<>> /\ Head(s) = "-" THEN lstrip_hyphen(Tail(s)) ELSE s

RECURSIVE rstrip_hyphen(_)
rstrip_hyphen(s) ==
  IF s # <<>> /\ s[Len(s)] = "-" THEN rstrip_hyphen(SubSeq(s, 1, Len(s) - 1)) ELSE s

\* slug[:50] of src/scraper.py
SlugCap == 50

generate_slug(v, title) ==
  LET lowered == [i \in 1..Len(title) |-> lower(title[i])]
      kept    == SelectSeq(lowered, LAMBDA c : IsWord(c) \/ IsSpace(c) \/ c = "-")
      slug    == rstrip_hyphen(lstrip_hyphen(collapse_hyphens(kept, FALSE)))
  IN IF v = "main" THEN slug
     ELSE IF title = <<>> THEN <<"untitled">>
     ELSE SubSeq(slug, 1, Min(SlugCap, Len(slug)))

(***************************************************************************)
(* The fingerprint store: article_metadata.json.                           *)
(***************************************************************************)
EmptyMetadata == [k \in {} |-> None]

AbsentFile == [state |-> "absent", data |-> EmptyMetadata]
CorruptFile == [state |-> "corrupt", data |-> EmptyMetadata]
JsonFile(data) == [state |-> "ok", data |-> data]

\* {} when the file is absent or json.load raises
load_metadata(file) == IF file.state = "ok" THEN file.data ELSE EmptyMetadata

\* What a save can do: write the file, fail in open() (the file is left as
\* it was) or fail in json.dump after open(..., 'w') truncated the file.
SaveOutcomes == {"ok", "open_failed", "dump_failed"}

\* a save that keeps the records the file held for other ids
save_metadata_merging(file, metadata, outcome) ==
  CASE outcome = "ok" ->
         JsonFile([k \in DOMAIN metadata \cup DOMAIN load_metadata(file) |->
                     IF k \in DOMAIN metadata THEN metadata[k]
                     ELSE load_metadata(file)[k]])
    [] outcome = "open_failed" -> file
    [] OTHER -> CorruptFile

save_metadata(file, metadata, outcome) ==
  CASE outcome = "ok" -> JsonFile(metadata)
    [] outcome = "open_failed" -> file
    [] OTHER -> CorruptFile

(***************************************************************************)
(* detect_changes                                                          *)
(***************************************************************************)
\* the hash detect_changes computes for an article
content_hash_of(v, article) ==
  IF v = "main" THEN calculate_content_hash(clean_html_to_markdown(article.body))
  ELSE calculate_content_hash(article.body)

\* the record detect_changes stores for an article
metadata_entry(v, article, t) ==
  IF v = "main"
  THEN [slug |-> generate_slug(v, article.title), title |-> article.title,
        hash |-> content_hash_of(v, article), updated_at |-> article.updated_at,
        last_checked |-> t]
  ELSE [title |-> article.title, updated_at |-> article.updated_at,
        content_hash |-> content_hash_of(v, article),
        slug |-> generate_slug(v, article.title)]

\* previous_metadata[article_id]['hash'] raises KeyError on a record without
\* the key (main.py); .get('content_hash') gives None (src/scraper.py).
lookup_raises(v, record) == v = "main" /\ "hash" \notin DOMAIN record

stored_hash(v, record) ==
  IF v = "main" THEN record.hash
  ELSE IF "content_hash" \in DOMAIN record THEN record.content_hash ELSE None

\* articles[:limit] for limit >= 0, applied "if limit:"
apply_limit(articles, limit) ==
  IF limit # NoLimit /\ limit[1] # 0
  THEN SubSeq(articles, 1, Min(limit[1], Len(articles)))
  ELSE articles

\* a store that keeps nothing
PutNothing(f, k, x) == f

Put(f, k, x) == [j \in DOMAIN f \cup {k} |-> IF j = k THEN x ELSE f[j]]

\* the loop over the considered articles; acc holds the three lists, the
\* snapshot built so far and whether the loop raised
RECURSIVE detect_loop(_, _, _, _, _)
detect_loop(v, articles, previous_metadata, t, acc) ==
  IF articles = <<>> THEN acc
  ELSE
    LET article == Head(articles)
        article_id == article.id
        content_hash == content_hash_of(v, article)
        cur == Put(acc.current_metadata, article_id, metadata_entry(v, article, t))
        acc1 == [acc EXCEPT !.current_metadata = cur]
    IN IF article_id \notin DOMAIN previous_metadata
       THEN detect_loop(v, Tail(articles), previous_metadata, t,
                        [acc1 EXCEPT !.new_articles = Append(@, article)])
       ELSE IF lookup_raises(v, previous_metadata[article_id])
       THEN [acc1 EXCEPT !.raised = TRUE]
       ELSE IF stored_hash(v, previous_metadata[article_id]) # content_hash
       THEN detect_loop(v, Tail(articles), previous_metadata, t,
                        [acc1 EXCEPT !.updated_articles = Append(@, article)])
       ELSE detect_loop(v, Tail(articles), previous_metadata, t,
                        [acc1 EXCEPT !.unchanged_articles = Append(@, article)])

\* detect_changes(articles, limit) run at time t on the metadata file, with
\* the outcome of its save_metadata call.  The result holds what it
\* returns (the three lists), what it read and built, and the file after.
detect_changes(v, articles, limit, file, t, outcome) ==
  LET previous_metadata == load_metadata(file)
      considered == apply_limit(articles, limit)
      r == detect_loop(v, considered, previous_metadata, t,
                       [new_articles |-> <<>>, updated_articles |-> <<>>,
                        unchanged_articles |-> <<>>,
                        current_metadata |-> EmptyMetadata, raised |-> FALSE])
  IN [new_articles |-> r.new_articles,
      updated_articles |-> r.updated_articles,
      unchanged_articles |-> r.unchanged_articles,
      current_metadata |-> r.current_metadata,
      raised |-> r.raised,
      previous_metadata |-> previous_metadata,
      file |-> IF r.raised THEN file
               ELSE save_metadata(file, r.current_metadata, outcome)]

(***************************************************************************)
(* scrape_articles: what main() hands to the upload stage.                 *)
(***************************************************************************)
\* the limit main() passes: scrape_articles(limit=35)
MainLimit == 35

\* the file entry scrape_articles builds from what save_article returns
save_article(v, article) ==
  [filename |-> generate_slug(v, article.title) \o <<".md">>,
   content |-> [title |-> article.title,
                markdown |-> clean_html_to_markdown(article.body),
                article_id |-> article.id,
                updated_at |-> article.updated_at],
   article_id |-> article.id,
   title |-> article.title]

\* a scraper that processes every article it classified
articles_to_process_all(r) ==
  r.new_articles \o r.updated_articles \o r.unchanged_articles

\* articles_to_process = new_articles + updated_articles
articles_to_process(r) == r.new_articles \o r.updated_articles

\* the entries of the articles whose save_article call did not raise;
\* saved is the set of their positions in to_process
RECURSIVE processed_files(_, _, _, _)
processed_files(v, to_process, i, saved) ==
  IF i > Len(to_process) THEN <<>>
  ELSE (IF i \in saved THEN <<save_article(v, to_process[i])>> ELSE <<>>)
         \o processed_files(v, to_process, i + 1, saved)

EmptyResult == [added |-> 0, updated |-> 0, skipped |-> 0, files |-> <<>>]

\* the result of scrape_articles after detect_changes returned r
scrape_result(v, r, saved) ==
  IF articles_to_process(r) = <<>>
  THEN [added |-> 0, updated |-> 0, skipped |-> Len(r.unchanged_articles),
        files |-> <<>>]
  ELSE [added |-> Len(r.new_articles), updated |-> Len(r.updated_articles),
        skipped |-> Len(r.unchanged_articles),
        files |-> processed_files(v, articles_to_process(r), 1, saved)]

(***************************************************************************)
(* The run state: optibot_config.json.                                     *)
(***************************************************************************)
\* None where an id is expected
Null == <<"null", 0>>

EmptyConfig == [k \in {} |-> Null]

\* a load that never finds the persisted run state
load_config_fresh(file) == EmptyConfig

\* {} when the file is absent or json.load raises
load_config(file) == IF file.state = "ok" THEN file.data ELSE EmptyConfig

\* a lookup that finds no key
GetMissing(config, key) == Null

\* config.get(key)
Get(config, key) == IF key \in DOMAIN config THEN config[key] ELSE Null

\* an update that stores nothing
update_dropped(config, entries) == config

\* config.update(entries)
update(config, entries) ==
  [k \in DOMAIN config \cup DOMAIN entries |->
     IF k \in DOMAIN entries THEN entries[k] ELSE config[k]]

\* save_config: as save_metadata, any failure is logged and swallowed
save_config(file, config, outcome) ==
  CASE outcome = "ok" -> [state |-> "ok", data |-> config]
    [] outcome = "open_failed" -> file
    [] OTHER -> [state |-> "corrupt", data |-> EmptyConfig]

AbsentConfig == [state |-> "absent", data |-> EmptyConfig]

\* the id the remote service gives the n-th assistant it creates
AssistantId(n) == <<"asst", n>>

(***************************************************************************)
(* State.                                                                  *)
(***************************************************************************)
VARIABLES
  variant,        \* which OptiSignsScraper class runs: "main" or "pkg"
  metadata_file,  \* article_metadata.json
  now,            \* the clock read by datetime.now()
  articles,       \* detector calls: the article list passed in
  limit,          \* detector calls: the limit passed in
  hpc,            \* detector calls: "start", "first" (one call made), "second"
                  \* (a call on an edited list), "repeat" (the same call again)
  r1,             \* result of the first detect_changes call
  articles2,      \* the article list of the second call
  r2,             \* result of the second detect_changes call
  config_file,    \* optibot_config.json
  calls,          \* the remote calls and file writes of the current run, in order
  feed,           \* main(): the articles the help center holds
  pc,             \* main(): "idle", "scraped", "setup", "upload"
  result,         \* main(): what scrape_articles returned
  detected,       \* main(): the three lists detect_changes returned in this run
  runs,           \* main(): runs ended so far
  assistants,     \* number of assistants created at the remote service
  owed,           \* main(): changed documents the last run did not upload,
                  \* while the feed is the one that run read
  same_source,    \* main(): the feed is the one the last run read
  uploader,       \* OpenAIUploader.vector_store_id, the constructor argument
  spc,            \* setup_assistant: "idle" or the stage it is at
  sync,           \* setup_assistant: the locals of the current (or, when idle,
                  \* of the last) invocation and what it returned
  prev,           \* setup_assistant: the same of the invocation before
  remote          \* the remote service: files and vector stores created so far

hvars == <<variant, articles, limit, hpc, r1, articles2, r2>>
mvars == <<feed, pc, result, detected, runs, owed, same_source>>
svars == <<uploader, spc, sync, prev, remote>>
vars == <<variant, metadata_file, now, articles, limit, hpc, r1, articles2, r2,
          config_file, calls, feed, pc, result, detected, runs,
          assistants, owed, same_source, uploader, spc, sync, prev, remote>>

\* the ids the remote service gives the n-th vector store and the n-th file
VectorStoreId(n) == <<"vs", n>>
FileId(n) == <<"file", n>>

\* a file entry of files_data; upload_files reads its filename and content
FileEntry(k) == [filename |-> <<"doc", k>>, content |-> <<"a">>]
\* the lists of file entries setup_assistant is called with
FilesData == {[i \in 1..n |-> FileEntry(i)] : n \in 0..MaxFiles}

\* wait_for_batch_completion(..., timeout=300)
BatchTimeout == 300
\* time.sleep(3) before every poll
PollInterval == 3
\* the statuses of a file batch; the first two keep the poll loop going
Pending == {"in_progress", "queued"}
BatchStatuses == Pending \cup {"completed", "failed"}

\* an entry of the call log: the remote operation (or the config write)
\* and the ids it was given
Call(op, ids) == <<op, ids>>

\* what setup_assistant has not returned yet
NoReturn == [returned |-> FALSE, assistant_id |-> Null, success |-> FALSE]

\* the locals of setup_assistant at its first line
NoSync ==
  [files_data |-> <<>>, config |-> EmptyConfig, assistant_id |-> Null,
   uploaded_files |-> <<>>, vector_store_id |-> Null,
   verify_failed |-> FALSE, created_vector_store |-> Null,
   file_ids |-> <<>>, file_batch |-> "none", waited |-> 0, polls |-> 0,
   vector_store_success |-> FALSE, created_assistant |-> Null,
   create_assistant_raised |-> FALSE, attachment_success |-> FALSE,
   written |-> EmptyConfig, saved |-> "none", ret |-> NoReturn]

\* the variables of the sync driver while no invocation is modelled
SyncQuiet ==
  /\ uploader = Null
  /\ spc = "idle"
  /\ sync = NoSync
  /\ prev = NoSync
  /\ remote = [files |-> 0, vector_stores |-> 0]

NoResult ==
  [new_articles |-> <<>>, updated_articles |-> <<>>, unchanged_articles |-> <<>>,
   current_metadata |-> EmptyMetadata, raised |-> FALSE,
   previous_metadata |-> EmptyMetadata, file |-> AbsentFile]

NoDetection ==
  [ran |-> FALSE, new_articles |-> <<>>, updated_articles |-> <<>>,
   unchanged_articles |-> <<>>]

\* the variables of main() while no program run is modelled
MainQuiet ==
  /\ config_file = AbsentConfig
  /\ calls = <<>>
  /\ feed = <<>>
  /\ pc = "idle"
  /\ result = EmptyResult
  /\ detected = NoDetection
  /\ runs = 0
  /\ assistants = 0
  /\ owed = {}
  /\ same_source = FALSE

\* the variables of the detector calls while none is modelled
DetectQuiet ==
  /\ articles = <<>>
  /\ limit = NoLimit
  /\ hpc = "start"
  /\ r1 = NoResult
  /\ articles2 = <<>>
  /\ r2 = NoResult

(***************************************************************************)
(* Calls of detect_changes on drawn inputs: one call on any persisted      *)
(* snapshot, and a second call on an edited list after a first call that   *)
(* started from an empty snapshot and saved its own.                       *)
(***************************************************************************)
\* the records either class may have left in the file for article id k
PriorRecords(k) ==
  {metadata_entry(w, a, 0) : w \in Variants, a \in {b \in Articles : b.id = k}}

PriorSnapshots ==
  UNION {{m \in [S -> UNION {PriorRecords(k) : k \in Ids}] :
            \A k \in S : m[k] \in PriorRecords(k)} : S \in SUBSET Ids}

PriorFiles == {AbsentFile, CorruptFile} \cup {JsonFile(m) : m \in PriorSnapshots}

\* the body an edit of the source replaces a body by
NextBody(body) ==
  CASE body = <<"a">> -> <<"a", "n", "n", "n", "a">>
    [] body = <<"a", "n", "n", "n", "a">> -> <<"<", "a", "n">>
    [] OTHER -> <<"a">>

\* the list with the bodies at the positions B edited
Edit(list, B) ==
  [i \in 1..Len(list) |->
     IF i \in B THEN [list[i] EXCEPT !.body = NextBody(@)] ELSE list[i]]

DetectInit ==
  /\ variant \in Variants
  /\ metadata_file \in PriorFiles
  /\ now = 1
  /\ articles \in ArticleLists
  /\ limit \in Limits
  /\ hpc = "start"
  /\ r1 = NoResult
  /\ articles2 = <<>>
  /\ r2 = NoResult
  /\ MainQuiet
  /\ SyncQuiet

FirstCall ==
  /\ hpc = "start"
  /\ \E outcome \in SaveOutcomes :
       r1' = detect_changes(variant, articles, limit, metadata_file, now, outcome)
  /\ metadata_file' = r1'.file
  /\ now' = now + 1
  /\ hpc' = "first"
  /\ UNCHANGED <<variant, articles, limit, articles2, r2>>
  /\ UNCHANGED <<config_file, calls, assistants, mvars, svars>>

SecondCall ==
  /\ hpc = "first"
  /\ r1.previous_metadata = EmptyMetadata
  /\ metadata_file = JsonFile(r1.current_metadata)
  /\ \E B \in SUBSET (1..Len(articles)) : articles2' = Edit(articles, B)
  /\ \E outcome \in SaveOutcomes :
       r2' = detect_changes(variant, articles2', limit, metadata_file, now, outcome)
  /\ metadata_file' = r2'.file
  /\ now' = now + 1
  /\ hpc' = "second"
  /\ UNCHANGED <<variant, articles, limit, r1>>
  /\ UNCHANGED <<config_file, calls, assistants, mvars, svars>>

\* the next run over the same documents, after a run whose save did not
\* leave its snapshot in the file
RepeatCall ==
  /\ hpc = "first"
  /\ ~r1.raised
  /\ metadata_file # JsonFile(r1.current_metadata)
  /\ articles2' = articles
  /\ \E outcome \in SaveOutcomes :
       r2' = detect_changes(variant, articles, limit, metadata_file, now, outcome)
  /\ metadata_file' = r2'.file
  /\ now' = now + 1
  /\ hpc' = "repeat"
  /\ UNCHANGED <<variant, articles, limit, r1>>
  /\ UNCHANGED <<config_file, calls, assistants, mvars, svars>>

DetectNext == FirstCall \/ SecondCall \/ RepeatCall

SpecDetect == DetectInit /\ [][DetectNext]_vars

(***************************************************************************)
(* Properties of detect_changes (SpecDetect).                              *)
(***************************************************************************)
IdsOf(list) == {list[i].id : i \in 1..Len(list)}
DistinctIds(list) == \A i, j \in 1..Len(list) : list[i].id = list[j].id => i = j
Returned(r) == ~r.raised

\* the documents the code considers in the first and in the second call
considered1 == apply_limit(articles, limit)
considered2 == apply_limit(articles2, limit)

BucketsDisjoint(r) ==
  /\ IdsOf(r.new_articles) \cap IdsOf(r.updated_articles) = {}
  /\ IdsOf(r.new_articles) \cap IdsOf(r.unchanged_articles) = {}
  /\ IdsOf(r.updated_articles) \cap IdsOf(r.unchanged_articles) = {}

BucketsCount(r) ==
  Len(r.new_articles) + Len(r.updated_articles) + Len(r.unchanged_articles)

\* C2: for every article list (lists that repeat an id with different
\* bodies included), prior snapshot and limit, the three buckets hold as
\* many documents as were considered and no document id is in two buckets.
C2_PartitionTotalDisjoint ==
  (hpc = "first" /\ Returned(r1)) =>
    /\ BucketsCount(r1) = Len(considered1)
    /\ BucketsDisjoint(r1)

\* C2, the part that holds: the count always adds up, and the buckets are
\* disjoint by id whenever the considered list repeats no id.
C2_CountAndDisjointOnDistinctIds ==
  (hpc = "first" /\ Returned(r1)) =>
    /\ BucketsCount(r1) = Len(considered1)
    /\ (DistinctIds(considered1) => BucketsDisjoint(r1))

\* C3: a second call on the identical list, against the snapshot a first
\* call from an empty snapshot produced, returns new = [], updated = [] and
\* every considered document in unchanged.
C3_Idempotent ==
  (hpc = "second" /\ articles2 = articles /\ Returned(r2)) =>
    /\ r2.new_articles = <<>>
    /\ r2.updated_articles = <<>>
    /\ r2.unchanged_articles = considered2

\* C3 on lists that repeat no id
C3_IdempotentOnDistinctIds ==
  (hpc = "second" /\ articles2 = articles /\ Returned(r2)
     /\ DistinctIds(considered2)) =>
    /\ r2.new_articles = <<>>
    /\ r2.updated_articles = <<>>
    /\ r2.unchanged_articles = considered2

\* the classification rule of one call: where each considered document
\* must be, given the snapshot P the call read
InNew(r, d) == \E i \in 1..Len(r.new_articles) : r.new_articles[i] = d
InUpdated(r, d) == \E i \in 1..Len(r.updated_articles) : r.updated_articles[i] = d
InUnchanged(r, d) == \E i \in 1..Len(r.unchanged_articles) : r.unchanged_articles[i] = d

RuleHolds(r, considered) ==
  LET P == r.previous_metadata
  IN \A i \in 1..Len(considered) :
       LET d == considered[i]
       IN /\ InNew(r, d) <=> d.id \notin DOMAIN P
          /\ InUpdated(r, d) <=>
               (d.id \in DOMAIN P /\ stored_hash(variant, P[d.id]) # content_hash_of(variant, d))
          /\ InUnchanged(r, d) <=>
               (d.id \in DOMAIN P /\ stored_hash(variant, P[d.id]) = content_hash_of(variant, d))

\* the positions of the considered list whose content (the text that is
\* fingerprinted) differs between the first and the second call
ChangedPositions ==
  {i \in 1..Len(considered2) :
     content_hash_of(variant, articles[i]) # content_hash_of(variant, articles2[i])}

Pick(list, keep) == SelectSeq([i \in 1..Len(list) |-> <<i, list[i]>>], LAMBDA p : p[1] \in keep)
AtPositions(list, keep) == [i \in 1..Len(Pick(list, keep)) |-> Pick(list, keep)[i][2]]

SecondRunExact ==
  /\ r2.new_articles = <<>>
  /\ r2.updated_articles = AtPositions(considered2, ChangedPositions)
  /\ r2.unchanged_articles =
       AtPositions(considered2, (1..Len(considered2)) \ ChangedPositions)

\* C4: new iff the id is no key of the prior snapshot, updated iff it is a
\* key with a different fingerprint, unchanged iff it is a key with the
\* same fingerprint; so a second call in which exactly the documents of a
\* set B changed content yields updated = B in source order, unchanged =
\* the rest, new = [].
C4_ClassificationRule ==
  /\ (hpc = "first" /\ Returned(r1)) => RuleHolds(r1, considered1)
  /\ (hpc = "second" /\ Returned(r2)) => (RuleHolds(r2, considered2) /\ SecondRunExact)

\* C4, the parts that hold: the rule itself, and its consequence on lists
\* that repeat no id
C4_RuleAndConsequenceOnDistinctIds ==
  /\ (hpc = "first" /\ Returned(r1)) => RuleHolds(r1, considered1)
  /\ (hpc = "second" /\ Returned(r2)) =>
       /\ RuleHolds(r2, considered2)
       /\ DistinctIds(considered2) => SecondRunExact

\* the documents a call classified, as the ids its snapshot holds and the
\* number of documents in its buckets
\* C5: with a limit N given (N = 0 included) exactly the first
\* min(N, len(docs)) documents are considered and the others are in no
\* bucket; with no limit all of docs are considered.
C5_LimitSemantics ==
  (hpc = "first" /\ Returned(r1)) =>
    LET expected == IF limit = NoLimit THEN articles
                    ELSE SubSeq(articles, 1, Min(limit[1], Len(articles)))
    IN /\ BucketsCount(r1) = Len(expected)
       /\ DOMAIN r1.current_metadata = IdsOf(expected)
       /\ \A i \in 1..Len(articles) :
            i > Len(expected) /\ articles[i] \notin {expected[j] : j \in 1..Len(expected)} =>
              ~(InNew(r1, articles[i]) \/ InUpdated(r1, articles[i])
                  \/ InUnchanged(r1, articles[i]))

\* C5 for every limit other than 0
C5_LimitSemanticsNonZero ==
  (hpc = "first" /\ Returned(r1) /\ limit # <<0>>) =>
    LET expected == IF limit = NoLimit THEN articles
                    ELSE SubSeq(articles, 1, Min(limit[1], Len(articles)))
    IN /\ BucketsCount(r1) = Len(expected)
       /\ DOMAIN r1.current_metadata = IdsOf(expected)

(***************************************************************************)
(* The program: main() of main.py, run again and again on the persisted    *)
(* files, while the source and the environment change between runs.        *)
(***************************************************************************)
\* the documents of a detection that are in new or updated
Changed(d) ==
  {d.new_articles[i] : i \in 1..Len(d.new_articles)}
    \cup {d.updated_articles[i] : i \in 1..Len(d.updated_articles)}

\* the changed documents none of the uploaded file entries stands for
NotUploaded(d, uploaded) ==
  {a \in Changed(d) :
     \A i \in 1..Len(uploaded) : uploaded[i] # save_article("main", a)}

\* what the source may become between two runs: bodies edited, or the last
\* article gone
SourceEdits(list) ==
  {Edit(list, B) : B \in SUBSET (1..Len(list))}
    \cup (IF list = <<>> THEN {} ELSE {SubSeq(list, 1, Len(list) - 1)})

MainInit ==
  /\ variant = "main"
  /\ metadata_file = AbsentFile
  /\ now = 1
  /\ DetectQuiet
  /\ config_file = AbsentConfig
  /\ calls = <<>>
  /\ feed \in Feeds
  /\ pc = "idle"
  /\ result = EmptyResult
  /\ detected = NoDetection
  /\ runs = 0
  /\ assistants = 0
  /\ owed = {}
  /\ same_source = FALSE
  /\ SyncQuiet

\* the end of a run of main(): the locals of the run are gone;
\* still_owed are the changed documents of the run that it did not upload
EndRun(still_owed) ==
  /\ pc' = "idle"
  /\ runs' = runs + 1
  /\ owed' = still_owed
  /\ same_source' = TRUE
  /\ result' = EmptyResult
  /\ detected' = NoDetection
  /\ calls' = <<>>

\* scraper.scrape_articles(limit=35): the fetch (which gives the feed, or
\* nothing when the request fails), detect_changes with its save, and
\* save_article for every changed article.  A KeyError of detect_changes
\* ends main().
MainScrape ==
  /\ pc = "idle"
  /\ runs < MaxRuns
  /\ now' = now + 1
  /\ \E fetched \in {feed, <<>>} :
       IF fetched = <<>>
       THEN /\ result' = EmptyResult
            /\ detected' = NoDetection
            /\ calls' = <<"fetch">>
            /\ pc' = "scraped"
            /\ UNCHANGED <<metadata_file, runs, owed, same_source>>
       ELSE \E outcome \in SaveOutcomes :
              LET r == detect_changes("main", fetched, <<MainLimit>>,
                                      metadata_file, now, outcome)
              IN /\ metadata_file' = r.file
                 /\ IF r.raised
                    THEN EndRun({})
                    ELSE /\ \E saved \in SUBSET (1..Len(articles_to_process(r))) :
                              result' = scrape_result("main", r, saved)
                         /\ detected' = [ran |-> TRUE,
                                         new_articles |-> r.new_articles,
                                         updated_articles |-> r.updated_articles,
                                         unchanged_articles |-> r.unchanged_articles]
                         /\ calls' = <<"fetch", "load_metadata", "save_metadata">>
                         /\ pc' = "scraped"
                         /\ UNCHANGED <<runs, owed, same_source>>
  /\ UNCHANGED <<hvars, svars, config_file, feed, assistants>>

\* main(): "No changes detected, exiting..."
MainNoChanges ==
  /\ pc = "scraped"
  /\ result.added = 0 /\ result.updated = 0
  /\ EndRun({})
  /\ UNCHANGED <<hvars, svars, metadata_file, now, config_file, feed, assistants>>

\* uploader = OpenAIUploader(): raises ValueError when the environment of
\* the run holds no OPENAI_API_KEY, which main() catches ("Upload failed")
MainUploader ==
  /\ pc = "scraped"
  /\ ~(result.added = 0 /\ result.updated = 0)
  /\ \E api_key \in BOOLEAN :
       IF api_key
       THEN pc' = "setup" /\ UNCHANGED <<runs, owed, result, detected, calls, same_source>>
       ELSE EndRun(Changed(detected))
  /\ UNCHANGED <<hvars, svars, metadata_file, now, config_file, feed, assistants>>

\* the positions of the files whose upload succeeded, as a list of entries
RECURSIVE upload_files(_, _, _)
upload_files(files_data, i, succeeded) ==
  IF i > Len(files_data) THEN <<>>
  ELSE (IF i \in succeeded THEN <<files_data[i]>> ELSE <<>>)
         \o upload_files(files_data, i + 1, succeeded)

\* uploader.setup_assistant(result['files']) of main.py, first half: the
\* assistant is created first when the config names none (an error there
\* ends main() in its except clause)
MainSetup ==
  /\ pc = "setup"
  /\ LET config == load_config(config_file)
         assistant_id == Get(config, "assistant_id")
     IN IF assistant_id # Null
        THEN /\ pc' = "upload"
             /\ UNCHANGED <<runs, owed, result, detected, calls, same_source,
                            assistants>>
        ELSE \E created \in BOOLEAN :
               IF created
               THEN /\ pc' = "upload"
                    /\ assistants' = assistants + 1
                    /\ calls' = calls \o <<"assistants.create">>
                    /\ UNCHANGED <<runs, owed, result, detected, same_source>>
               ELSE /\ EndRun(Changed(detected))
                    /\ UNCHANGED assistants
  /\ UNCHANGED <<hvars, svars, metadata_file, now, feed, config_file>>

\* setup_assistant of main.py, second half: every file is uploaded, then
\* the config is saved with the assistant of the first half
MainUpload ==
  /\ pc = "upload"
  /\ LET config == load_config(config_file)
         assistant_id == Get(config, "assistant_id")
         id == IF assistant_id = Null THEN AssistantId(assistants)
               ELSE assistant_id
     IN \E succeeded \in SUBSET (1..Len(result.files)),
           outcome \in SaveOutcomes :
          LET uploaded_files == upload_files(result.files, 1, succeeded)
          IN /\ config_file' =
                  save_config(config_file,
                              update(config, [assistant_id |-> id,
                                              last_upload |-> now,
                                              files_uploaded |-> Len(uploaded_files)]),
                              outcome)
             /\ EndRun(NotUploaded(detected, uploaded_files))
  /\ UNCHANGED <<hvars, svars, metadata_file, now, feed, assistants>>

\* the help center's articles change between two runs
EditSource ==
  /\ pc = "idle"
  /\ 0 < runs /\ runs < MaxRuns
  /\ same_source
  /\ feed' \in SourceEdits(feed) \ {feed}
  /\ same_source' = FALSE
  /\ owed' = {}
  /\ UNCHANGED <<hvars, svars, metadata_file, now, config_file, calls, pc,
                 result, detected, runs, assistants>>

MainNext ==
  \/ MainScrape
  \/ MainNoChanges
  \/ MainUploader
  \/ MainSetup
  \/ MainUpload
  \/ EditSource

SpecMain == MainInit /\ [][MainNext]_vars

(***************************************************************************)
(* Properties of the program (SpecMain).                                   *)
(***************************************************************************)
\* a run has scraped and detect_changes returned
Scraped == pc \in {"scraped", "setup", "upload"} /\ detected.ran

Unchanged(d) == {d.unchanged_articles[i] : i \in 1..Len(d.unchanged_articles)}

\* C1: after a run whose sync of some changed documents failed, the next
\* run over the same source classifies those documents as changed again
\* (and so hands them to the upload stage again).
C1_FailedSyncIsRetried ==
  Scraped => \A a \in owed : a \in Changed(detected)

\* every file entry handed on stands for a document classified NEW or
\* UPDATED in this run, and for no document classified UNCHANGED
FilesAreChanged ==
  Scraped =>
    \A i \in 1..Len(result.files) :
      /\ \E a \in Changed(detected) : result.files[i] = save_article("main", a)
      /\ \A a \in Unchanged(detected) : result.files[i] # save_article("main", a)

\* a run without NEW and UPDATED documents ends without entering the
\* upload stage and leaves the run-state file and the remote service alone
NoChangeNoSync ==
  (pc = "scraped" /\ result.added = 0 /\ result.updated = 0) =>
    /\ pc' = "idle"
    /\ config_file' = config_file
    /\ assistants' = assistants

\* the upload stage is entered only from a run that found changes
SyncOnlyOnChange ==
  pc' = "setup" => Len(detected.new_articles) + Len(detected.updated_articles) > 0

\* C6: the files handed to the upload stage are entries for documents
\* classified NEW or UPDATED in that run, never for an UNCHANGED one; a run
\* without NEW and UPDATED documents makes no upload, index or agent call
\* and leaves the run-state file unchanged.
C6_OnlyChangedPushed ==
  /\ []FilesAreChanged
  /\ [][NoChangeNoSync /\ SyncOnlyOnChange]_vars

\* C6 witness: the upload stage is reached with the file of a changed
\* document while another document of the same run is unchanged
C6_Witness ==
  /\ pc = "setup"
  /\ result.files # <<>>
  /\ detected.unchanged_articles # <<>>

(***************************************************************************)
(* The sync driver: OpenAIUploader.setup_assistant of src/uploader.py,     *)
(* stage by stage, invoked again and again on the persisted run state.     *)
(***************************************************************************)
\* the variables the sync driver does not touch
nosync == <<hvars, mvars, metadata_file>>

\* the file objects files.create returned for the entries uploaded, when the
\* service had created base files before
file_objects(entries, base) ==
  [j \in 1..Len(entries) |->
     [id |-> FileId(base + j), filename |-> entries[j].filename]]

\* an upload stage that gives up after its first entry
upload_attempts_first(files_data) ==
  IF files_data = <<>> THEN <<>>
  ELSE <<Call("files.create", <<files_data[1].filename>>)>>

\* upload_files tries every entry once, in the order of files_data
upload_attempts(files_data) ==
  [i \in 1..Len(files_data) |-> Call("files.create", <<files_data[i].filename>>)]

\* a batch attach that also takes the file ids the invocation before
\* uploaded and did not get attached
file_ids_resuming(uploaded_files) ==
  (IF prev.vector_store_success THEN <<>>
   ELSE [i \in 1..Len(prev.uploaded_files) |-> prev.uploaded_files[i].id])
    \o [i \in 1..Len(uploaded_files) |-> uploaded_files[i].id]

\* file_ids = [f.id for f in uploaded_files]
file_ids(uploaded_files) ==
  [i \in 1..Len(uploaded_files) |-> uploaded_files[i].id]

\* overall_success, the flag setup_assistant returns on its last line
overall_success(uploaded_files, vector_store_success, vector_store_id) ==
  Len(uploaded_files) > 0 /\ (vector_store_success \/ vector_store_id = Null)

\* entries that count every uploaded file as embedded
config_entries_all_embedded(assistant_id, vector_store_id, t, uploaded_files, vector_store_success, attachment_success) ==
  [assistant_id |-> assistant_id,
   vector_store_id |-> vector_store_id,
   last_upload |-> t,
   files_uploaded |-> Len(uploaded_files),
   vector_store_success |-> vector_store_success,
   attachment_success |-> attachment_success,
   manual_attachment_required |-> ~(vector_store_success /\ attachment_success),
   chunks_embedded |-> Len(uploaded_files)]

\* the entries of config.update({...}) on the full path
config_entries(assistant_id, vector_store_id, t, uploaded_files, vector_store_success, attachment_success) ==
  [assistant_id |-> assistant_id,
   vector_store_id |-> vector_store_id,
   last_upload |-> t,
   files_uploaded |-> Len(uploaded_files),
   vector_store_success |-> vector_store_success,
   attachment_success |-> attachment_success,
   manual_attachment_required |-> ~(vector_store_success /\ attachment_success),
   chunks_embedded |-> IF vector_store_success THEN Len(uploaded_files) ELSE 0]

\* return assistant_id, success: the invocation is over, its locals are kept
\* for the record
Return(locals, assistant_id, success) ==
  /\ spc' = "idle"
  /\ sync' = [locals EXCEPT !.ret = [returned |-> TRUE,
                                     assistant_id |-> assistant_id,
                                     success |-> success]]

SyncInit ==
  /\ variant = "pkg"
  /\ metadata_file = AbsentFile
  /\ now = 1
  /\ DetectQuiet
  /\ MainQuiet
  /\ uploader \in {Null, VectorStoreId(0)}
  /\ spc = "idle"
  /\ sync = NoSync
  /\ prev = NoSync
  /\ remote = [files |-> 0, vector_stores |-> 0]

\* setup_assistant(files_data) up to the upload stage: load_config, and the
\* whole branch of an empty files_data
SyncStart ==
  /\ spc = "idle"
  /\ now <= MaxRuns
  /\ now' = now + 1
  /\ prev' = sync
  /\ \E files_data \in FilesData :
       LET config == load_config(config_file)
           assistant_id == Get(config, "assistant_id")
           locals == [NoSync EXCEPT !.files_data = files_data,
                                    !.config = config,
                                    !.assistant_id = assistant_id]
       IN IF files_data # <<>>
          THEN /\ spc' = "upload"
               /\ sync' = locals
               /\ calls' = <<>>
               /\ UNCHANGED <<config_file, assistants>>
          ELSE IF assistant_id # Null
          THEN /\ Return(locals, assistant_id, TRUE)
               /\ calls' = <<>>
               /\ UNCHANGED <<config_file, assistants>>
          ELSE \E created \in BOOLEAN, outcome \in SaveOutcomes :
                 IF created
                 THEN LET id == AssistantId(assistants + 1)
                          written == update(config, [assistant_id |-> id])
                      IN /\ assistants' = assistants + 1
                         /\ config_file' = save_config(config_file, written, outcome)
                         /\ calls' = <<Call("assistants.create", <<>>),
                                       Call("save_config", <<>>)>>
                         /\ Return([locals EXCEPT !.assistant_id = id,
                                                  !.created_assistant = id,
                                                  !.written = written,
                                                  !.saved = outcome],
                                   id, TRUE)
                 ELSE /\ calls' = <<Call("assistants.create", <<>>)>>
                      /\ Return([locals EXCEPT !.create_assistant_raised = TRUE],
                                Null, FALSE)
                      /\ UNCHANGED <<config_file, assistants>>
  /\ UNCHANGED <<uploader, remote, nosync>>

\* Step 1: upload_files(files_data); "No files were uploaded successfully"
\* returns at once
SyncUpload ==
  /\ spc = "upload"
  /\ \E succeeded \in SUBSET (1..Len(sync.files_data)) :
       LET uploaded_files ==
             file_objects(upload_files(sync.files_data, 1, succeeded), remote.files)
           locals == [sync EXCEPT !.uploaded_files = uploaded_files]
       IN /\ remote' = [remote EXCEPT !.files = @ + Len(uploaded_files)]
          /\ calls' = calls \o upload_attempts(sync.files_data)
          /\ IF uploaded_files = <<>>
             THEN Return(locals, sync.assistant_id, FALSE)
             ELSE spc' = "index" /\ sync' = locals
  /\ UNCHANGED <<now, prev, uploader, config_file, assistants, nosync>>

\* get_or_create_vector_store has its id (or None): with a store the batch
\* attach is next, without one the assistant
IndexResolved(locals, vector_store_id, log) ==
  /\ sync' = [locals EXCEPT !.vector_store_id = vector_store_id]
  /\ spc' = IF vector_store_id # Null THEN "attach" ELSE "agent"
  /\ calls' = calls \o log

\* create_vector_store: the new id, or None when the call raises
CreateIndex(locals, log) ==
  \E created \in BOOLEAN :
    IF created
    THEN LET id == VectorStoreId(remote.vector_stores + 1)
         IN /\ remote' = [remote EXCEPT !.vector_stores = @ + 1]
            /\ IndexResolved([locals EXCEPT !.created_vector_store = id], id,
                             log \o <<Call("vector_stores.create", <<>>)>>)
    ELSE /\ remote' = remote
         /\ IndexResolved(locals, Null,
                          log \o <<Call("vector_stores.create", <<>>)>>)

\* Step 2, first half: get_or_create_vector_store(config)
SyncIndex ==
  /\ spc = "index"
  /\ LET vector_store_id == IF uploader # Null THEN uploader
                            ELSE Get(sync.config, "vector_store_id")
         retrieve == <<Call("vector_stores.retrieve", <<vector_store_id>>)>>
     IN IF vector_store_id # Null
        THEN \E verified \in BOOLEAN :
               IF verified
               THEN /\ IndexResolved(sync, vector_store_id, retrieve)
                    /\ remote' = remote
               ELSE CreateIndex([sync EXCEPT !.verify_failed = TRUE], retrieve)
        ELSE CreateIndex(sync, <<>>)
  /\ UNCHANGED <<now, prev, uploader, config_file, assistants, nosync>>

\* a wait that never declares the timeout
timed_out_never(waited) == FALSE

\* if elapsed > timeout
timed_out(waited) == waited > BatchTimeout

\* attach_files_to_vector_store or wait_for_batch_completion returns: the
\* locals of the wait are gone
Attached(locals, success, log) ==
  /\ sync' = [locals EXCEPT !.vector_store_success = success,
                            !.file_batch = "none", !.waited = 0, !.polls = 0]
  /\ spc' = "agent"
  /\ calls' = calls \o log

\* Step 2, second half: attach_files_to_vector_store up to the wait; the
\* batch is created in any status, or file_batches.create raises
SyncAttach ==
  /\ spc = "attach"
  /\ LET ids == file_ids(sync.uploaded_files)
         locals == [sync EXCEPT !.file_ids = ids]
         create == <<Call("file_batches.create", <<sync.vector_store_id>> \o ids)>>
     IN \E raised \in BOOLEAN, status \in BatchStatuses :
          IF raised
          THEN Attached(locals, FALSE, create)
          ELSE /\ sync' = [locals EXCEPT !.file_batch = status]
               /\ spc' = "poll"
               /\ calls' = calls \o create
  /\ UNCHANGED <<now, prev, uploader, config_file, assistants, remote, nosync>>

\* wait_for_batch_completion: one turn of the while loop, or what follows
\* the loop.  waited is time.time() - start_time; a poll sleeps PollInterval
\* and its retrieve answers at once or after more than BatchTimeout.  After
\* MaxPolls fast polls that found the batch pending the next one is slow or
\* finds it settled, when the polls are capped.
PollTurn(capped) ==
  /\ spc = "poll"
  /\ IF sync.file_batch \in Pending
     THEN IF timed_out(sync.waited)
          THEN Attached(sync, FALSE, <<>>)
          ELSE \E slow \in BOOLEAN, raised \in BOOLEAN, status \in BatchStatuses :
                 /\ (capped /\ sync.polls >= MaxPolls) =>
                      (slow \/ raised \/ status \notin Pending)
                 /\ LET retrieve == <<Call("file_batches.retrieve", <<>>)>>
                    IN IF raised
                       THEN Attached(sync, FALSE, retrieve)
                       ELSE /\ sync' = [sync EXCEPT
                                 !.file_batch = status,
                                 !.waited = @ + PollInterval
                                              + (IF slow THEN BatchTimeout ELSE 0),
                                 !.polls = @ + 1]
                            /\ spc' = "poll"
                            /\ calls' = calls \o retrieve
     ELSE Attached(sync, sync.file_batch = "completed", <<>>)
  /\ UNCHANGED <<now, prev, uploader, config_file, assistants, remote, nosync>>

SyncPoll == PollTurn(TRUE)

\* Step 3: the assistant of the config, or create_assistant(); when that
\* raises, setup_assistant returns (None, False) at once
SyncAgent ==
  /\ spc = "agent"
  /\ IF sync.assistant_id # Null
     THEN /\ spc' = "bind"
          /\ UNCHANGED <<sync, calls, assistants>>
     ELSE \E created \in BOOLEAN :
            /\ calls' = calls \o <<Call("assistants.create", <<>>)>>
            /\ IF created
               THEN LET id == AssistantId(assistants + 1)
                    IN /\ assistants' = assistants + 1
                       /\ sync' = [sync EXCEPT !.assistant_id = id,
                                               !.created_assistant = id]
                       /\ spc' = "bind"
               ELSE /\ assistants' = assistants
                    /\ Return([sync EXCEPT !.create_assistant_raised = TRUE],
                              Null, FALSE)
  /\ UNCHANGED <<now, prev, uploader, config_file, remote, nosync>>

\* a Step 4 that binds whatever Step 2 did
binds_always(vector_store_id, vector_store_success) == TRUE

\* Step 4 is entered: if vector_store_id and vector_store_success
binds_assistant(vector_store_id, vector_store_success) ==
  vector_store_id # Null /\ vector_store_success

\* Step 4 and the end of setup_assistant: attach_vector_store_to_assistant
\* when the files were attached, config.update, save_config, and the return
\* of overall_success
SyncFinish ==
  /\ spc = "bind"
  /\ \E bound \in BOOLEAN, outcome \in SaveOutcomes :
       LET binds == binds_assistant(sync.vector_store_id, sync.vector_store_success)
           attachment_success == binds /\ bound
           written == update(sync.config,
                             config_entries(sync.assistant_id, sync.vector_store_id,
                                            now, sync.uploaded_files,
                                            sync.vector_store_success,
                                            attachment_success))
       IN /\ config_file' = save_config(config_file, written, outcome)
          /\ calls' = calls
               \o (IF binds
                   THEN <<Call("assistants.update",
                               <<sync.assistant_id, sync.vector_store_id>>)>>
                   ELSE <<>>)
               \o <<Call("save_config", <<>>)>>
          /\ Return([sync EXCEPT !.attachment_success = attachment_success,
                                 !.written = written,
                                 !.saved = outcome],
                    sync.assistant_id,
                    overall_success(sync.uploaded_files, sync.vector_store_success,
                                    sync.vector_store_id))
  /\ UNCHANGED <<now, prev, uploader, assistants, remote, nosync>>

SyncNext ==
  \/ SyncStart
  \/ SyncUpload
  \/ SyncIndex
  \/ SyncAttach
  \/ SyncPoll
  \/ SyncAgent
  \/ SyncFinish

SpecSync == SyncInit /\ [][SyncNext]_vars

(***************************************************************************)
(* wait_for_batch_completion on its own (SpecWait): the first invocation,  *)
(* on one file and no run state, has uploaded the file, created the index  *)
(* and the batch, and the wait begins.  The polls are not capped: the      *)
(* batch may stay pending for as long as the loop asks.                    *)
(***************************************************************************)
WaitInit ==
  /\ variant = "pkg"
  /\ metadata_file = AbsentFile
  /\ now = 2
  /\ DetectQuiet
  /\ config_file = AbsentConfig
  /\ feed = <<>>
  /\ pc = "idle"
  /\ result = EmptyResult
  /\ detected = NoDetection
  /\ runs = 0
  /\ assistants = 0
  /\ owed = {}
  /\ same_source = FALSE
  /\ uploader = Null
  /\ prev = NoSync
  /\ remote = [files |-> 1, vector_stores |-> 1]
  /\ spc = "poll"
  /\ \E status \in BatchStatuses :
       sync = [NoSync EXCEPT !.files_data = <<FileEntry(1)>>,
                             !.uploaded_files = file_objects(<<FileEntry(1)>>, 0),
                             !.vector_store_id = VectorStoreId(1),
                             !.created_vector_store = VectorStoreId(1),
                             !.file_ids = <<FileId(1)>>,
                             !.file_batch = status]
  /\ calls = <<Call("files.create", <<FileEntry(1).filename>>),
               Call("vector_stores.create", <<>>),
               Call("file_batches.create", <<VectorStoreId(1), FileId(1)>>)>>

WaitPoll == PollTurn(FALSE)

WaitNext ==
  \/ WaitPoll
  \/ SyncAgent
  \/ SyncFinish

\* the loop is not suspended for ever: time.sleep and retrieve return
SpecWait == WaitInit /\ [][WaitNext]_vars /\ WF_vars(WaitPoll)

(***************************************************************************)
(* Properties of the sync driver (SpecSync).                               *)
(***************************************************************************)
\* setup_assistant has returned and no other invocation has begun
SyncReturned == spc = "idle" /\ sync.ret.returned

\* the invocation made a call of this kind
Made(op) == \E i \in 1..Len(calls) : calls[i][1] = op

FileIdsOf(files) == {files[i].id : i \in 1..Len(files)}

\* the invocation wrote a run-state record that holds its agent id, its
\* index id, its upload count and its stage outcomes
RecordWritten ==
  /\ Made("save_config")
  /\ {"assistant_id", "vector_store_id", "files_uploaded",
      "vector_store_success", "attachment_success"} \subseteq DOMAIN sync.written
  /\ sync.written.assistant_id = sync.assistant_id
  /\ sync.written.vector_store_id = sync.vector_store_id
  /\ sync.written.files_uploaded = Len(sync.uploaded_files)
  /\ sync.written.vector_store_success = sync.vector_store_success
  /\ sync.written.attachment_success = sync.attachment_success

\* C7: every invocation of setup_assistant with a non-empty changed set
\* writes the run-state record before it returns, whatever the stage
\* outcomes, and the record holds the agent id, the index id, the upload
\* count and each stage outcome of that run.
C7_PersistedUnconditionally ==
  (SyncReturned /\ sync.files_data # <<>>) => RecordWritten

\* C7, what the code does: the record is written on the path that reaches
\* the last stage, that is when a file was uploaded and no create_assistant
\* call raised.
C7_PersistedOnFullPath ==
  (SyncReturned /\ sync.uploaded_files # <<>> /\ ~sync.create_assistant_raised)
    => RecordWritten

\* the invocation before created an index and then failed before the
\* attach completed: the attach or its poll failed, or the agent creation
\* after it did; and no write of the run-state file went wrong in it
FailedInWindow(p) ==
  /\ p.ret.returned
  /\ p.uploaded_files # <<>>
  /\ p.created_vector_store # Null
  /\ ~p.vector_store_success \/ p.create_assistant_raised
  /\ p.saved \in {"none", "ok"}

\* the invocation made no create-index call, and no create-agent call when
\* the one before had created an agent
ReusesIds ==
  /\ ~Made("vector_stores.create")
  /\ prev.created_assistant # Null => ~Made("assistants.create")

\* C8: when setup_assistant is invoked twice with the same changed set and
\* the first invocation fails after the upload but before the attach
\* completes, the second reuses the ids the first created: no second
\* create-index and no second create-agent call while the index verifies.
C8_Resumable ==
  (SyncReturned /\ sync.files_data = prev.files_data /\ FailedInWindow(prev)
     /\ ~sync.verify_failed)
    => ReusesIds

\* C8, what the code does: the ids are reused when the first invocation
\* reached its save_config.
C8_ResumableWhenPersisted ==
  (SyncReturned /\ sync.files_data = prev.files_data /\ FailedInWindow(prev)
     /\ ~sync.verify_failed /\ prev.saved = "ok")
    => ReusesIds

\* the invocation uploaded files and did not get them attached
LeftUnattached(p) ==
  p.ret.returned /\ p.uploaded_files # <<>> /\ ~p.vector_store_success

\* an invocation on the same changed set as the one before, which left its
\* uploads unattached, has attached files
AttachedAfterPartialRun ==
  /\ SyncReturned
  /\ LeftUnattached(prev)
  /\ sync.files_data = prev.files_data
  /\ sync.vector_store_success

C10_OverallSuccess ==
  (SyncReturned /\ sync.files_data # <<>>) =>
    (sync.ret.success <=>
       (/\ Len(sync.uploaded_files) > 0
        /\ \/ sync.vector_store_id = Null
           \/ sync.vector_store_success /\ sync.attachment_success))

\* C10, what the code does: the stated value is returned unless the bind
\* failed after a successful attach or a create_assistant call raised.
C10_HoldsUnlessBindOrAgentFails ==
  (SyncReturned /\ sync.files_data # <<>> /\ ~sync.create_assistant_raised
     /\ (sync.vector_store_success => sync.attachment_success))
    => (sync.ret.success <=>
          (/\ Len(sync.uploaded_files) > 0
           /\ \/ sync.vector_store_id = Null
              \/ sync.vector_store_success /\ sync.attachment_success))

\* the persisted run state names an agent
HoldsAgent(file) ==
  /\ file.state = "ok"
  /\ "assistant_id" \in DOMAIN file.data
  /\ file.data.assistant_id # Null

\* a step that is a whole invocation of setup_assistant([])
EmptyInvocation == spc = "idle" /\ now' # now /\ sync'.files_data = <<>>

\* C11: setup_assistant called with an empty changed set while the run
\* state holds agent id X returns (X, true), makes no remote call of any
\* kind and does not write the run-state file.
C11_SyncNoOp ==
  [][(EmptyInvocation /\ HoldsAgent(config_file)) =>
       /\ spc' = "idle"
       /\ sync'.ret = [returned |-> TRUE,
                       assistant_id |-> config_file.data.assistant_id,
                       success |-> TRUE]
       /\ calls' = <<>>
       /\ sync'.saved = "none"
       /\ config_file' = config_file
       /\ remote' = remote
       /\ assistants' = assistants]_vars

\* C11 witness: an invocation with an empty changed set has returned the
\* agent id an earlier invocation persisted
C11_Witness ==
  /\ SyncReturned
  /\ sync.files_data = <<>>
  /\ HoldsAgent(config_file)
  /\ prev.ret.returned
  /\ sync.ret.assistant_id = config_file.data.assistant_id
  /\ calls = <<>>

\* the invocations with an empty changed set that found no agent id
EmptyFirstRun ==
  SyncReturned /\ sync.files_data = <<>> /\ Get(sync.config, "assistant_id") = Null

\* the call log of such an invocation holds one create-agent call and no
\* upload or index call
OneCreateAgentCall ==
  /\ Len(SelectSeq(calls, LAMBDA c : c[1] = "assistants.create")) = 1
  /\ \A i \in 1..Len(calls) : calls[i][1] \in {"assistants.create", "save_config"}

\* C12 as stated: setup_assistant called with an empty changed set while
\* the run state holds no agent id makes exactly one create-agent call and
\* no upload or index call, persists the new agent id and returns
\* (new id, true); an empty first run always ends with a usable agent id.
C12_EmptyFirstRun ==
  EmptyFirstRun =>
    /\ OneCreateAgentCall
    /\ sync.ret.success /\ sync.ret.assistant_id # Null
    /\ HoldsAgent(config_file)
    /\ config_file.data.assistant_id = sync.ret.assistant_id

\* C12, amended: such an invocation makes exactly one create-agent call and
\* no upload or index call.  When the call succeeds it hands the new agent
\* id to save_config and returns (new id, true), and the run-state file
\* holds the id when that write succeeded; when the call raises it writes
\* nothing and returns (None, false).
C12_EmptyFirstRunCreatesOrFails ==
  EmptyFirstRun =>
    /\ OneCreateAgentCall
    /\ IF sync.create_assistant_raised
       THEN /\ sync.ret.assistant_id = Null /\ ~sync.ret.success
            /\ sync.saved = "none" /\ ~Made("save_config")
       ELSE /\ sync.ret.assistant_id = sync.created_assistant
            /\ sync.created_assistant # Null /\ sync.ret.success
            /\ Made("save_config")
            /\ Get(sync.written, "assistant_id") = sync.created_assistant
            /\ sync.saved = "ok" =>
                 /\ HoldsAgent(config_file)
                 /\ config_file.data.assistant_id = sync.ret.assistant_id

\* C12 witness: an empty first run created an agent and persisted its id
C12_Witness ==
  /\ EmptyFirstRun
  /\ sync.created_assistant # Null
  /\ sync.saved = "ok"
  /\ config_file.data.assistant_id = sync.created_assistant

(***************************************************************************)
(* Properties of the persisted snapshot (SpecDetect, SpecMain).            *)
(***************************************************************************)
\* the snapshot the detect_changes call of this step builds
BuiltSnapshot == IF hpc = "start" THEN r1'.current_metadata ELSE r2'.current_metadata

\* C13: at every point of every run, also after a save that fails part-way
\* through the write, the snapshot file holds the complete previous
\* snapshot or the complete new one, never an empty, truncated or mixed one.
C13_AtomicSave ==
  [][metadata_file' \in {metadata_file, JsonFile(BuiltSnapshot)}]_vars

\* C13, what the code does: a save leaves the previous file, the new
\* snapshot, or the file that open(..., 'w') truncated.
C13_OldNewOrTruncated ==
  [][metadata_file' \in {metadata_file, JsonFile(BuiltSnapshot), CorruptFile}]_vars

\* how often the run so far made a call of this kind
Count(op) == Len(SelectSeq(calls, LAMBDA c : c = op))

\* C14: every run, a run on an empty feed included, reads the persisted
\* snapshot exactly once and writes exactly one replacement snapshot, at
\* the end of the run, after the sync stage: when the run takes its last
\* step it has read the snapshot once and has not written it yet.
C14_ReadOnceWriteAtEnd ==
  [][runs' = runs + 1 =>
       /\ Count("load_metadata") = 1
       /\ Count("save_metadata") = 0]_vars

\* C14, what the code does: a run that got articles reads the snapshot once
\* and writes it once, both inside detect_changes and before the upload
\* stage; a run that got no articles does neither.
C14_ReadAndWriteInDetect ==
  pc \in {"scraped", "setup", "upload"} =>
    IF detected.ran
    THEN Count("load_metadata") = 1 /\ Count("save_metadata") = 1
    ELSE Count("load_metadata") = 0 /\ Count("save_metadata") = 0

\* C19: detect_changes returns the partition and the new snapshot and does
\* not persist anything itself: a call of it leaves the snapshot file as it
\* was.
C19_DetectDoesNotPersist ==
  [][hpc' # hpc => metadata_file' = metadata_file]_vars

\* a record the class that runs can compare: main.py reads its 'hash',
\* src/scraper.py its 'content_hash'
WellFormed(v, record) ==
  IF v = "main" THEN "hash" \in DOMAIN record ELSE "content_hash" \in DOMAIN record

\* what load_metadata returned holds well-formed records only
LoadedUsable(r) ==
  \A k \in DOMAIN r.previous_metadata : WellFormed(variant, r.previous_metadata[k])

\* C15: missing or corrupt local state is never fatal: load_metadata returns
\* an empty mapping when the file is absent or its content cannot be used
\* (unparseable, or not a mapping of well-formed records), and a run started
\* on such a snapshot classifies every considered document as NEW and
\* completes without raising.
C15_UnusableStateIsEmpty ==
  hpc = "first" =>
    /\ LoadedUsable(r1)
    /\ ~r1.raised
    /\ r1.previous_metadata = EmptyMetadata => r1.new_articles = considered1

\* C15, what the code does: an absent or unparseable file loads as the empty
\* mapping, and on a mapping of well-formed records the run does not raise.
C15_UsableStateNeverRaises ==
  (hpc = "first" /\ LoadedUsable(r1)) =>
    /\ ~r1.raised
    /\ r1.previous_metadata = EmptyMetadata =>
         /\ r1.new_articles = considered1
         /\ r1.updated_articles = <<>> /\ r1.unchanged_articles = <<>>

\* the two calls classified alike
SameChanges(a, b) ==
  a.new_articles = b.new_articles /\ a.updated_articles = b.updated_articles

\* C16: a failed snapshot save does not abort the run and costs only a
\* re-detection: the next run over the same documents classifies them
\* exactly as this run did (the same NEW and UPDATED sets).
C16_FailedSaveCostsRedetection ==
  hpc = "repeat" => (~r2.raised /\ SameChanges(r1, r2))

\* C16, what the code does: the next run classifies alike when the failed
\* save left the file as it was.
C16_SameChangesWhenFileKept ==
  (hpc = "repeat" /\ r2.previous_metadata = r1.previous_metadata) =>
    (~r2.raised /\ SameChanges(r1, r2))

\* the snapshot r built holds, for every considered id and for no other, a
\* record made at time t from a considered document of that id
FreshSnapshot(r, considered, t) ==
  /\ DOMAIN r.current_metadata = IdsOf(considered)
  /\ \A k \in DOMAIN r.current_metadata :
       \E i \in 1..Len(considered) :
         /\ considered[i].id = k
         /\ r.current_metadata[k] = metadata_entry(variant, considered[i], t)
  /\ \A k \in DOMAIN r.previous_metadata :
       k \notin IdsOf(considered) => k \notin DOMAIN r.current_metadata

\* C17: the snapshot produced by a run holds a fresh record for every
\* considered document and for no other id: the old record of a document
\* not considered in this run is absent from the new snapshot.
C17_FreshRecordsOnly ==
  /\ (hpc = "first" /\ Returned(r1)) => FreshSnapshot(r1, considered1, now - 1)
  /\ (hpc \in {"second", "repeat"} /\ Returned(r2)) =>
       FreshSnapshot(r2, considered2, now - 1)

\* C17 witness: a run under a limit saved a snapshot without the record the
\* file held for a document of the feed beyond the limit
C17_Witness ==
  /\ hpc = "first" /\ Returned(r1)
  /\ Len(considered1) < Len(articles)
  /\ \E k \in DOMAIN r1.previous_metadata :
       k \in IdsOf(articles) /\ k \notin IdsOf(considered1)
  /\ metadata_file = JsonFile(r1.current_metadata)

\* the ids the snapshot file has a record for
Persisted == DOMAIN load_metadata(metadata_file)

\* C18 as stated: a FingerprintRecord is never deleted: once an id has a
\* record in the persisted snapshot, every later persisted snapshot has a
\* record for it, also after runs in which the document is absent from the
\* source feed.
C18_NeverDeleted ==
  (hpc = "first" /\ Returned(r1)) => DOMAIN r1.previous_metadata \subseteq Persisted

\* the file after the call that returned r: with the snapshot saved it has
\* records for the considered ids and no other; else it has the records it
\* had, or is unreadable
RecordsAfter(r, considered) ==
  IF metadata_file = JsonFile(r.current_metadata)
  THEN Persisted = IdsOf(considered)
  ELSE Persisted \in {DOMAIN r.previous_metadata, {}}

\* C18, amended: a FingerprintRecord is deleted by the first run with a
\* successful save that does not consider its document: after such a run
\* the persisted snapshot has records for exactly the ids considered in
\* that run.  After a failed save the file has the records it had before,
\* or none.
C18_DroppedWhenNotConsidered ==
  /\ (hpc = "first" /\ Returned(r1)) => RecordsAfter(r1, considered1)
  /\ (hpc \in {"second", "repeat"} /\ Returned(r2)) => RecordsAfter(r2, considered2)

\* C18 witness: the record of a document that is absent from the feed is
\* gone from the file after a run that saved its snapshot
C18_Witness ==
  /\ hpc = "first" /\ Returned(r1)
  /\ articles # <<>>
  /\ metadata_file = JsonFile(r1.current_metadata)
  /\ \E k \in DOMAIN r1.previous_metadata :
       k \notin IdsOf(articles) /\ k \notin Persisted

\* C20: two executions of detect_changes on the identical document list,
\* prior snapshot and limit produce identical partitions and identical new
\* snapshots (every field of every record equal), whatever the time at
\* which each runs.
C20_Deterministic ==
  (hpc = "repeat" /\ r2.previous_metadata = r1.previous_metadata) =>
    /\ r2.new_articles = r1.new_articles
    /\ r2.updated_articles = r1.updated_articles
    /\ r2.unchanged_articles = r1.unchanged_articles
    /\ r2.current_metadata = r1.current_metadata

\* C20, what the code does: the partitions are identical; the snapshots of
\* src/scraper.py are identical, those of main.py are identical up to the
\* last_checked field of every record.
C20_DeterministicUpToLastChecked ==
  (hpc = "repeat" /\ r2.previous_metadata = r1.previous_metadata) =>
    /\ r2.unchanged_articles = r1.unchanged_articles
    /\ SameChanges(r1, r2)
    /\ DOMAIN r2.current_metadata = DOMAIN r1.current_metadata
    /\ \A k \in DOMAIN r1.current_metadata :
         IF variant = "main"
         THEN [r2.current_metadata[k] EXCEPT !.last_checked = r1.current_metadata[k].last_checked]
                = r1.current_metadata[k]
         ELSE r2.current_metadata[k] = r1.current_metadata[k]

(***************************************************************************)
(* Properties of the stages of the sync driver (SpecSync).                 *)
(***************************************************************************)
\* how often the invocation made a call of this kind
CountOp(op) == Len(SelectSeq(calls, LAMBDA c : c[1] = op))

\* the upload stage of the invocation is over
Uploaded == sync.files_data # <<>> /\ spc # "upload"

\* the positions of files_data the uploaded files stand for: increasing,
\* one per uploaded file
InInputOrder(uploaded_files, files_data) ==
  \E at \in [1..Len(uploaded_files) -> 1..Len(files_data)] :
    /\ \A j \in 1..Len(uploaded_files) :
         uploaded_files[j].filename = files_data[at[j]].filename
    /\ \A j, k \in 1..Len(uploaded_files) : j < k => at[j] < at[k]

\* C21: upload_files attempts each changed document at most once per run
\* and in input order; a failure on one document removes only that document
\* from the uploaded set and the others are still attempted; the stage fails
\* (success = false, no index or agent call) only when the uploaded set is
\* empty for a non-empty input.
C21_UploadStage ==
  Uploaded =>
    /\ CountOp("files.create") = Len(sync.files_data)
    /\ Len(calls) >= Len(sync.files_data)
    /\ \A i \in 1..Len(sync.files_data) :
         calls[i] = Call("files.create", <<sync.files_data[i].filename>>)
    /\ InInputOrder(sync.uploaded_files, sync.files_data)
    /\ IF sync.uploaded_files = <<>>
       THEN /\ SyncReturned /\ ~sync.ret.success
            /\ Len(calls) = Len(sync.files_data)
       ELSE spc = "index" \/ Len(calls) > Len(sync.files_data)

\* C21 witness: the first of two documents failed to upload, the second
\* was uploaded and the run went on to the index
C21_Witness ==
  /\ SyncReturned
  /\ Len(sync.files_data) = 2
  /\ Len(sync.uploaded_files) = 1
  /\ sync.uploaded_files[1].filename = sync.files_data[2].filename
  /\ Made("vector_stores.create")

\* the index id the prior run state holds (None when it holds none)
PriorIndex == Get(sync.config, "vector_store_id")

\* the verify call was made on the index of the prior run state and
\* confirmed it
PriorIndexConfirmed ==
  /\ PriorIndex # Null
  /\ \E i \in 1..Len(calls) : calls[i] = Call("vector_stores.retrieve", <<PriorIndex>>)
  /\ ~sync.verify_failed

\* the index stage of the invocation is over
IndexStageOver == Uploaded /\ sync.uploaded_files # <<>> /\ spc # "index"

\* what the index stage did: the prior index and no create call exactly
\* when the prior run state has one and it was confirmed, one create call
\* otherwise; without an index no batch attach and no bind
IndexStage ==
  /\ IF PriorIndexConfirmed
     THEN sync.vector_store_id = PriorIndex /\ CountOp("vector_stores.create") = 0
     ELSE CountOp("vector_stores.create") = 1
  /\ sync.vector_store_id = Null =>
       /\ ~Made("file_batches.create")
       /\ ~Made("assistants.update")

\* C22: the index id of the prior run state is reused, with no create-index
\* call, exactly when one is present and the verify call confirms it;
\* otherwise exactly one create-index call is made; when that creation fails
\* the run makes no batch attach and no binding call and still resolves the
\* agent and persists the run state.
C22_IndexResolution ==
  /\ IndexStageOver => IndexStage
  /\ (SyncReturned /\ IndexStageOver /\ sync.vector_store_id = Null) =>
       /\ sync.ret.assistant_id # Null
       /\ Made("save_config")

\* C22, as far as the code goes: when the uploader was constructed without
\* an index id of its own the index stage is as claimed, and a run without
\* an index persists the run state unless create_assistant raised
C22_HoldsWithoutOverride ==
  /\ (IndexStageOver /\ uploader = Null) => IndexStage
  /\ (IndexStageOver /\ uploader # Null /\ ~sync.verify_failed) =>
       /\ sync.vector_store_id = uploader
       /\ CountOp("vector_stores.create") = 0
  /\ (SyncReturned /\ IndexStageOver /\ sync.vector_store_id = Null) =>
       \/ sync.ret.assistant_id # Null /\ Made("save_config")
       \/ sync.create_assistant_raised /\ sync.ret.assistant_id = Null

\* the attach stage ends in this step: attach_files_to_vector_store returns
AttachReturns == spc \in {"attach", "poll"} /\ spc' = "agent"

\* the value attach_files_to_vector_store returns: True only from the poll
\* loop left on a batch observed 'completed'; a timeout, another terminal
\* status and an error of file_batches.create or retrieve give False
AttachResult ==
  AttachReturns =>
    (sync'.vector_store_success <=> (spc = "poll" /\ sync.file_batch = "completed"))

\* the stage gives up on a pending batch only when the timeout is over or
\* the poll raised
PendingGivenUp ==
  (AttachReturns /\ spc = "poll" /\ sync.file_batch \in Pending) =>
    \/ sync.waited > BatchTimeout /\ calls' = calls
    \/ calls' = calls \o <<Call("file_batches.retrieve", <<>>)>>

\* the attach stage of the invocation ended in failure
AttachFailed ==
  /\ IndexStageOver
  /\ Made("file_batches.create")
  /\ spc \notin {"attach", "poll"}
  /\ ~sync.vector_store_success

\* C23: the attach stage reports success only if the batch was observed
\* 'completed' and no timeout had been declared before; any other terminal
\* status, an error while creating or polling the batch, or a timeout yields
\* stage failure, and after such a failure agent resolution and the
\* run-state write still happen.
C23_AttachOutcome ==
  /\ [][AttachResult /\ PendingGivenUp]_vars
  /\ []((SyncReturned /\ AttachFailed) =>
          sync.ret.assistant_id # Null /\ Made("save_config"))

\* C23, as far as the code goes: the stage result is as claimed, and after
\* a failed attach the run state is written unless create_assistant raised
C23_HoldsUnlessAgentFails ==
  /\ [][AttachResult /\ PendingGivenUp]_vars
  /\ []((SyncReturned /\ AttachFailed) =>
          \/ sync.ret.assistant_id # Null /\ Made("save_config")
          \/ sync.create_assistant_raised /\ ~Made("save_config"))

(***************************************************************************)
(* Properties of the poll loop (SpecWait).                                 *)
(***************************************************************************)
\* the polls a wait can make: one before every sleep that starts within the
\* timeout
PollBound == (BatchTimeout \div PollInterval) + 1

\* after the loop no step polls the batch or submits another one
NoPollAfterLoop ==
  spc # "poll" =>
    /\ CountOp("file_batches.retrieve")' = CountOp("file_batches.retrieve")
    /\ CountOp("file_batches.create")' = CountOp("file_batches.create")

\* C24: wait_for_batch_completion returns after a bounded number of polls
\* even when the batch stays 'queued' or 'in_progress' forever, and a batch
\* that timed out is not polled or resubmitted again in the same run.
C24_PollLoopTerminates ==
  /\ [](sync.polls <= PollBound /\ CountOp("file_batches.retrieve") <= PollBound)
  /\ <>(spc # "poll")
  /\ [][NoPollAfterLoop]_vars
  /\ [](CountOp("file_batches.create") = 1)

\* C24 witness: the batch was found pending by every poll the timeout
\* allows, the loop gave up and the run went on
C24_Witness ==
  /\ spc = "bind"
  /\ CountOp("file_batches.retrieve") = PollBound
  /\ ~sync.vector_store_success

(***************************************************************************)
(* Properties of the agent stage (SpecSync).                               *)
(***************************************************************************)
\* the agent id the prior run state holds (None when it holds none)
PriorAgent == Get(sync.config, "assistant_id")

\* an invocation of setup_assistant has begun
InRun == spc # "idle" \/ SyncReturned

\* C25: when the prior run state holds an agent id, no create-agent call is
\* made and that id is the one returned and persisted; otherwise at most one
\* create-agent call is made in the run; a run that follows a successful
\* write finds the agent written and creates none, and the persisted agent
\* id is the id of the last (and, once persisted, only) agent created.
C25_AgentIdStable ==
  /\ CountOp("assistants.create") <= 1
  /\ (InRun /\ PriorAgent # Null) =>
       /\ ~Made("assistants.create")
       /\ sync.created_assistant = Null
       /\ SyncReturned => sync.ret.assistant_id = PriorAgent
       /\ sync.saved # "none" => Get(sync.written, "assistant_id") = PriorAgent
       /\ HoldsAgent(config_file) => config_file.data.assistant_id = PriorAgent
  /\ (InRun /\ prev.saved = "ok") =>
       /\ PriorAgent # Null
       /\ PriorAgent = Get(prev.written, "assistant_id")
  /\ (InRun /\ sync.saved = "ok") =>
       /\ HoldsAgent(config_file)
       /\ config_file.data.assistant_id = sync.ret.assistant_id
  /\ HoldsAgent(config_file) =>
       config_file.data.assistant_id = AssistantId(assistants)

\* C25 witness: the first run created the agent and persisted it, the
\* second run uploaded files, created no agent and returned and persisted
\* the same id
C25_Witness ==
  /\ SyncReturned
  /\ prev.created_assistant # Null
  /\ prev.saved = "ok"
  /\ sync.files_data # <<>>
  /\ sync.saved = "ok"
  /\ sync.ret.assistant_id = prev.created_assistant
  /\ assistants = 1

\* the index id of the batch attach the invocation made
AttachedIndex ==
  LET i == CHOOSE i \in 1..Len(calls) : calls[i][1] = "file_batches.create"
  IN calls[i][2][1]

\* C26: an update-agent (bind) call is made in a run only if the index
\* attach of that same run succeeded, it binds the index id the files were
\* attached to, and a binding failure neither changes the returned agent id
\* nor prevents the run-state write.
C26_BindAfterAttach ==
  Made("assistants.update") =>
    /\ CountOp("assistants.update") = 1
    /\ Made("file_batches.create")
    /\ sync.vector_store_success
    /\ sync.assistant_id # Null
    /\ Call("assistants.update", <<sync.assistant_id, AttachedIndex>>)
         = calls[Len(calls) - 1]
    /\ SyncReturned
    /\ sync.ret.assistant_id = sync.assistant_id
    /\ calls[Len(calls)] = Call("save_config", <<>>)
    /\ sync.saved # "none"
    /\ Get(sync.written, "assistant_id") = sync.assistant_id

\* C26 witness: the files were attached, the bind call failed, and the run
\* returned its agent and wrote the run state
C26_Witness ==
  /\ SyncReturned
  /\ Made("assistants.update")
  /\ ~sync.attachment_success
  /\ sync.saved = "ok"
  /\ sync.ret.assistant_id # Null

(***************************************************************************)
(* Stage order of a sync run.                                              *)
(***************************************************************************)
\* the stage a call belongs to: upload, index, attach, agent, bind, persist
Stage(op) ==
  CASE op = "files.create" -> 1
    [] op \in {"vector_stores.retrieve", "vector_stores.create"} -> 2
    [] op \in {"file_batches.create", "file_batches.retrieve"} -> 3
    [] op = "assistants.create" -> 4
    [] op = "assistants.update" -> 5
    [] op = "save_config" -> 6
    [] OTHER -> 0

\* the calls of the sync stages that main() has made so far in its run
SyncCallsOfMain == SelectSeq(calls, LAMBDA c : Stage(c) > 0)

\* C27: in one sync run the remote calls and the persist happen in the
\* order upload of all files, index verify/create, batch attach with its
\* polls, agent create (when needed), agent-index bind, run-state write: no
\* call of a later stage is made while the upload of the files is to come.
C27_StageOrder ==
  (pc = "upload" /\ result.files # <<>>) =>
    \A i \in 1..Len(SyncCallsOfMain) : Stage(SyncCallsOfMain[i]) <= 1

\* C27 for setup_assistant of src/uploader.py (SpecSync): the calls of an
\* invocation are in stage order, and the polls follow the batch create
C27_OrderedInUploader ==
  /\ \A i, j \in 1..Len(calls) : i < j => Stage(calls[i][1]) <= Stage(calls[j][1])
  /\ \A i \in 1..Len(calls) : Stage(calls[i][1]) > 0
  /\ \A i \in 2..Len(calls) :
       calls[i][1] = "file_batches.retrieve" => Stage(calls[i - 1][1]) = 3

(***************************************************************************)
(* The credential check of main() (SpecMain).                              *)
(***************************************************************************)
\* OpenAIUploader() raises ValueError, OPENAI_API_KEY is not set: the step
\* from the scrape to the except clause of main()
MissingCredential ==
  /\ pc = "scraped"
  /\ ~(result.added = 0 /\ result.updated = 0)
  /\ pc' = "idle"

\* C28: when the required credential is missing the program fails before
\* any remote call is made (the source fetch included) and before any
\* persisted state (snapshot or run state) is written.
C28_FatalAtStartup ==
  [][MissingCredential =>
       /\ Count("fetch") = 0
       /\ Count("save_metadata") = 0
       /\ config_file' = config_file]_vars

\* C28, what the code does: the credential is looked at after the scrape,
\* that is after the fetch and after detect_changes wrote the snapshot; no
\* call of the sync stages is made and the run state is not written
C28_CheckedAfterScrape ==
  [][MissingCredential =>
       /\ Count("fetch") = 1
       /\ Count("save_metadata") = 1
       /\ SyncCallsOfMain = <<>>
       /\ assistants' = assistants
       /\ config_file' = config_file]_vars

(***************************************************************************)
(* The fingerprint (SpecDetect).                                           *)
(***************************************************************************)
\* the normalized (canonical) text of a document
canonical_text(article) == clean_html_to_markdown(article.body)

\* the raw body of a document
raw_body(article) == article.body

\* the text of a document, normalized or raw
text_of(normalized, article) ==
  IF normalized THEN canonical_text(article) ELSE raw_body(article)

\* the records a call stored carry the hash of the (normalized or raw) text
\* as fingerprint of every document considered
StoresHashOf(normalized, r, considered) ==
  \A i \in 1..Len(considered) :
    stored_hash(variant, r.current_metadata[considered[i].id])
      = calculate_content_hash(text_of(normalized, considered[i]))

\* the second call has a document UNCHANGED exactly when its (normalized or
\* raw) text is what it was in the first call
ComparesHashOf(normalized) ==
  \A i \in 1..Len(considered2) :
    (text_of(normalized, considered1[i]) = text_of(normalized, considered2[i]))
      <=> (\E j \in 1..Len(r2.unchanged_articles) :
             r2.unchanged_articles[j] = considered2[i])

\* C29: the fingerprint detect_changes stores and compares is the hash of
\* the document's canonical text, not of its raw body: two raw bodies with
\* the same canonical text are UNCHANGED against each other, two bodies with
\* different canonical text are not.
C29_FingerprintOfCanonicalText ==
  /\ (hpc # "start" /\ Returned(r1) /\ DistinctIds(articles)) =>
       StoresHashOf(TRUE, r1, considered1)
  /\ (hpc = "second" /\ Returned(r2) /\ DistinctIds(articles)) =>
       /\ StoresHashOf(TRUE, r2, considered2)
       /\ ComparesHashOf(TRUE)

\* C29, what the code does: main.py hashes the canonical text, src/scraper.py
\* hashes the raw body
C29_CanonicalInMainRawInPackage ==
  /\ (hpc # "start" /\ Returned(r1) /\ DistinctIds(articles)) =>
       StoresHashOf(variant = "main", r1, considered1)
  /\ (hpc = "second" /\ Returned(r2) /\ DistinctIds(articles)) =>
       /\ StoresHashOf(variant = "main", r2, considered2)
       /\ ComparesHashOf(variant = "main")

(***************************************************************************)
(* The run-state record of the full path (SpecSync).                       *)
(***************************************************************************)
\* a record with the entries of the full path
FullRecord(w) == "vector_store_success" \in DOMAIN w

ConsistentRecord(w) ==
  /\ w.attachment_success => w.vector_store_success
  /\ w.vector_store_success => (w.vector_store_id # Null /\ w.files_uploaded > 0)
  /\ w.manual_attachment_required = ~(w.vector_store_success /\ w.attachment_success)
  /\ w.chunks_embedded = (IF w.vector_store_success THEN w.files_uploaded ELSE 0)
  /\ w.assistant_id # Null

\* C30: in every run-state record written by the full sync path,
\* attachment_success implies vector_store_success, vector_store_success
\* implies that vector_store_id is set and files_uploaded > 0,
\* manual_attachment_required equals not (vector_store_success and
\* attachment_success), chunks_embedded equals files_uploaded when
\* vector_store_success and 0 otherwise, and assistant_id is never null.
C30_RecordConsistent ==
  /\ (sync.files_data # <<>> /\ sync.saved # "none") =>
       (FullRecord(sync.written) /\ ConsistentRecord(sync.written))
  /\ (config_file.state = "ok" /\ FullRecord(config_file.data)) =>
       ConsistentRecord(config_file.data)

\* C30 witness: the full path wrote a record of a run whose files were
\* attached and whose bind failed, and another of a run without an index
C30_Witness ==
  /\ SyncReturned
  /\ sync.saved = "ok"
  /\ config_file.data = sync.written
  /\ FullRecord(sync.written)
  /\ sync.written.vector_store_success
  /\ ~sync.written.attachment_success
  /\ prev.saved # "none"
  /\ FullRecord(prev.written)
  /\ prev.written.vector_store_id = Null

====
